---- MODULE Spec2Model ----
(***************************************************************************)
(* Model of the simple todo application: the Todo Store (one relational    *)
(* table), the server handlers (updateTodo, toggleTodo, deleteTodo,        *)
(* createTodo, getTodos) and the client controller (App).                  *)
(*                                                                         *)
(* Spec       : the handlers called directly against the Store, the way    *)
(*              the server tests call them.                                *)
(* SpecClient : the App component issuing remote calls to the handlers.    *)
(* SpecToggle : the App mounted against a filled Store and used only to    *)
(*              toggle todos.                                              *)
(***************************************************************************)
EXTENDS Integers, Sequences, FiniteSets, TLC

(* ------------------------------ bounds -------------------------------- *)
\* ids the Store hands out (serial primary key), and ids callers may name
MaxId == 2
\* largest reading of the wall clock
MaxClock == 1
\* remote calls the client may have outstanding at once
MaxCalls == 2
\* rows the Store holds when the App is mounted against a filled Store
MaxTodos == 2

(* ------------------------------ values -------------------------------- *)
\* JavaScript null in a description; no text of Descriptions equals it
NULL == "<null>"
\* non-empty titles a caller may supply
Titles == {"a", "b"}
\* description texts a caller may supply
Descriptions == {"x"}
\* what a description column or field may hold: a text or null
NullableDescriptions == Descriptions \cup {NULL}
\* titles the test fixtures insert
FixtureTitles == {"a"}
\* ids a caller may name; an id not yet assigned or already deleted names no row
Ids == 1..MaxId

VARIABLES
    rows,          \* the todos table: a set of rows, at most one per id
    nextId,        \* the serial sequence of the id column
    clock,         \* last reading of the wall clock (new Date(), now())
    last,          \* the last handler call: op, input, table before, result
    todos,         \* App state: the local list of todos
    isLoading,     \* App state: a create or update submit is in flight
    editingTodo,   \* App state: the todo being edited, or NoTodo
    formData,      \* App state: the create form
    editFormData,  \* App state: the edit form
    calls,         \* remote calls in flight, in the order they were issued
    sent           \* history: per todo id, the input of the toggle call issued last

serverVars == <<rows, nextId, clock, last>>
clientVars == <<todos, isLoading, editingTodo, formData, editFormData, calls,
                sent>>
vars == <<rows, nextId, clock, last, todos, isLoading, editingTodo,
          formData, editFormData, calls, sent>>

(* ------------------------------ Store --------------------------------- *)
\* select ... where id = i
RowsById(rs, i) == {r \in rs : r.id = i}

HasRow(rs, i) == RowsById(rs, i) # {}

RowOf(rs, i) == CHOOSE r \in rs : r.id = i

\* insert ... returning: the id comes from the sequence, completed defaults
\* to false unless given, both timestamps default to now()
InsertRow(id, values, now) ==
    [id          |-> id,
     title       |-> values.title,
     description |-> values.description,
     completed   |-> IF "completed" \in DOMAIN values THEN values.completed
                     ELSE FALSE,
     created_at  |-> now,
     updated_at  |-> now]

(* ----------------------------- handlers ------------------------------- *)
\* a handler input carries exactly the fields the caller supplied: a field
\* that is not in DOMAIN input is undefined in the JavaScript object
UpdateFull(i, t, d, c) ==
    [id |-> i, title |-> t, description |-> d, completed |-> c]

UpdateInputs ==
    {[f \in S \cup {"id"} |-> UpdateFull(i, t, d, c)[f]] :
        S \in SUBSET {"title", "description", "completed"},
        i \in Ids, t \in Titles, d \in NullableDescriptions, c \in BOOLEAN}

ToggleInputs == [id : Ids, completed : BOOLEAN]

DeleteInputs == [id : Ids]

\* updateTodo: resolves with a record built from the input alone; t1 and t2
\* are the two clock readings, in evaluation order
updateTodo(input, t1, t2) ==
    [id          |-> input.id,
     title       |-> IF "title" \in DOMAIN input /\ input.title # ""
                     THEN input.title ELSE "Placeholder title",
     description |-> IF "description" \in DOMAIN input THEN input.description
                     ELSE NULL,
     completed   |-> IF "completed" \in DOMAIN input THEN input.completed
                     ELSE FALSE,
     created_at  |-> t1,
     updated_at  |-> t2]

\* toggleTodo: resolves with a record built from the input alone
toggleTodo(input, t1, t2) ==
    [id          |-> input.id,
     title       |-> "Placeholder title",
     description |-> NULL,
     completed   |-> input.completed,
     created_at  |-> t1,
     updated_at  |-> t2]

\* a deleteTodo that reports success whether or not a row was removed
deleteTodoAlwaysSuccess(rs, input) ==
    [rows   |-> {r \in rs : r.id # input.id},
     result |-> [success |-> TRUE]]

\* a deleteTodo whose delete statement lost its where clause
deleteTodoNoWhere(rs, input) ==
    [rows   |-> {},
     result |-> [success |-> HasRow(rs, input.id)]]

\* deleteTodo: removes the row if present, success iff a row was removed
deleteTodo(rs, input) ==
    [rows   |-> {r \in rs : r.id # input.id},
     result |-> [success |-> HasRow(rs, input.id)]]

(* ------------------------- server test driver ------------------------- *)
NoCall == [op |-> "none"]

\* the values a test hands to db.insert: completed is optional
InsertValues ==
    [title : FixtureTitles, description : NullableDescriptions]
    \cup [title : FixtureTitles, description : NullableDescriptions,
          completed : BOOLEAN]

\* db.insert(todosTable).values(v).returning().execute()
DbInsert ==
    /\ nextId <= MaxId
    /\ \E v \in InsertValues, now \in clock..MaxClock :
        /\ rows' = rows \cup {InsertRow(nextId, v, now)}
        /\ clock' = now
        /\ last' = [op |-> "insert", input |-> v, before |-> rows,
                    result |-> [ok |-> TRUE,
                                todo |-> InsertRow(nextId, v, now)]]
    /\ nextId' = nextId + 1
    /\ UNCHANGED clientVars

\* await updateTodo(updateInput)
UpdateTodo ==
    /\ \E input \in UpdateInputs, t1 \in clock..MaxClock :
        \E t2 \in t1..MaxClock :
            /\ clock' = t2
            /\ last' = [op |-> "update", input |-> input, before |-> rows,
                        result |-> [ok |-> TRUE,
                                    todo |-> updateTodo(input, t1, t2)]]
    /\ UNCHANGED <<rows, nextId>>
    /\ UNCHANGED clientVars

\* await toggleTodo(toggleInput)
ToggleTodo ==
    /\ \E input \in ToggleInputs, t1 \in clock..MaxClock :
        \E t2 \in t1..MaxClock :
            /\ clock' = t2
            /\ last' = [op |-> "toggle", input |-> input, before |-> rows,
                        result |-> [ok |-> TRUE,
                                    todo |-> toggleTodo(input, t1, t2)]]
    /\ UNCHANGED <<rows, nextId>>
    /\ UNCHANGED clientVars

\* await deleteTodo(deleteInput)
DeleteTodo ==
    /\ \E input \in DeleteInputs :
        /\ rows' = deleteTodo(rows, input).rows
        /\ last' = [op |-> "delete", input |-> input, before |-> rows,
                    result |-> deleteTodo(rows, input).result]
    /\ UNCHANGED <<nextId, clock>>
    /\ UNCHANGED clientVars

NoTodo == [id |-> 0]

ServerInit ==
    /\ rows = {}
    /\ nextId = 1
    /\ clock = 0
    /\ last = NoCall

ClientInit ==
    /\ todos = <<>>
    /\ isLoading = FALSE
    /\ editingTodo = NoTodo
    /\ formData = [title |-> "", description |-> NULL]
    /\ editFormData = [id |-> 0, title |-> "", description |-> NULL]
    /\ calls = <<>>
    /\ sent = {}

Init == ServerInit /\ ClientInit

Next ==
    \/ DbInsert
    \/ UpdateTodo
    \/ ToggleTodo
    \/ DeleteTodo

Spec == Init /\ [][Next]_vars

(* ---------------------- spec-modelled handlers ------------------------ *)
\* createTodo: one Store insert; the new row is the returned Todo
createTodo(id, input, now) == InsertRow(id, input, now)

\* getTodos: every row of the table, in an order the Store chooses
getTodos(rs) ==
    {s \in [1..Cardinality(rs) -> rs] : \A r \in rs : \E k \in DOMAIN s : s[k] = r}

(* --------------------------- App: helpers ----------------------------- *)
\* what the user may type into a title input
TypedTitles == {"", " ", "a"}
\* what the user may type into a description textarea
TypedDescriptions == {"", "x"}

\* String.prototype.trim on the typed titles
trim(str) == IF str = " " THEN "" ELSE str

\* e.target.value || null
valueOrNull(str) == IF str = "" THEN NULL ELSE str

EmptyForm == [title |-> "", description |-> NULL]

EmptyEditForm == [id |-> 0, title |-> "", description |-> NULL]

\* the App state a handler's closure and its setState calls work on
ClientState ==
    [todos |-> todos, isLoading |-> isLoading, editingTodo |-> editingTodo,
     formData |-> formData, editFormData |-> editFormData]

RemoveAt(s, i) == SubSeq(s, 1, i - 1) \o SubSeq(s, i + 1, Len(s))

\* the card of todos[k] shows the edit form (editingTodo?.id === todo.id)
ShowsEditForm(k) == editingTodo # NoTodo /\ editingTodo.id = todos[k].id

\* the card of todos[k] shows the todo with its toggle, edit, delete buttons
ShowsTodo(k) == ~ShowsEditForm(k)

EditFormShown == \E k \in DOMAIN todos : ShowsEditForm(k)

\* a create that puts the new todo first
appendTodoFirst(prev, response) == <<response>> \o prev

\* setTodos(prev => [...prev, response])
appendTodo(prev, response) == Append(prev, response)

\* an update that replaces every listed todo by the response
replaceTodoAll(prev, id, response) ==
    [k \in DOMAIN prev |-> response]

\* setTodos(prev => prev.map(todo => todo.id === id ? response : todo))
replaceTodo(prev, id, response) ==
    [k \in DOMAIN prev |-> IF prev[k].id = id THEN response ELSE prev[k]]

\* setTodos(prev => prev.map(t => t.id === id ? {...t, completed: !t.completed} : t))
flipTodo(prev, id) ==
    [k \in DOMAIN prev |->
        IF prev[k].id = id THEN [prev[k] EXCEPT !.completed = ~@]
        ELSE prev[k]]

\* a delete that drops the element at the head of the list
filterTodoHead(prev, id) == IF prev = <<>> THEN prev ELSE Tail(prev)

\* setTodos(prev => prev.filter(todo => todo.id !== id))
filterTodo(prev, id) ==
    LET keep(t) == t.id # id IN SelectSeq(prev, keep)

(* ------------------------ App: remote calls --------------------------- *)
\* a call is "sent" until the server has run its handler, then "responded"
NewCall(kind, input) == [kind |-> kind, input |-> input, phase |-> "sent"]

Responded(c, res) ==
    [kind |-> c.kind, input |-> c.input, phase |-> "responded",
     result |-> res]

CanIssue == Len(calls) < MaxCalls

\* create calls the server has not run yet
PendingCreates ==
    Cardinality({k \in DOMAIN calls :
        calls[k].kind = "createTodo" /\ calls[k].phase = "sent"})

Event(op, step, input) ==
    [op |-> op, step |-> step, input |-> input, before |-> ClientState,
     outstanding |-> Len(calls)]

(* ------------------- App: what each handler settles to ---------------- *)
\* loadTodos after the await: setTodos(result); the catch only logs
loadTodosSettled(st, c, ok) ==
    IF ok THEN [st EXCEPT !.todos = c.result] ELSE st

\* a handleCreateSubmit that clears isLoading in the try block, not in finally
handleCreateSubmitSettledNoFinally(st, c, ok) ==
    IF ok
    THEN [st EXCEPT !.todos = appendTodo(st.todos, c.result),
                    !.formData = EmptyForm,
                    !.isLoading = FALSE]
    ELSE st

\* handleCreateSubmit after the await: append and reset the form on
\* success, only log on failure, clear isLoading in both cases
handleCreateSubmitSettled(st, c, ok) ==
    IF ok
    THEN [st EXCEPT !.todos = appendTodo(st.todos, c.result),
                    !.formData = EmptyForm,
                    !.isLoading = FALSE]
    ELSE [st EXCEPT !.isLoading = FALSE]

\* a handleEditSubmit that leaves edit mode in its finally block
handleEditSubmitSettledAlwaysExits(st, c, ok) ==
    IF ok
    THEN [st EXCEPT !.todos = replaceTodo(st.todos, c.input.id, c.result),
                    !.editingTodo = NoTodo,
                    !.editFormData = EmptyEditForm,
                    !.isLoading = FALSE]
    ELSE [st EXCEPT !.editingTodo = NoTodo,
                    !.editFormData = EmptyEditForm,
                    !.isLoading = FALSE]

\* handleEditSubmit after the await: editingTodo is the one of the render
\* that submitted, which is the todo whose id the edit form carries
handleEditSubmitSettled(st, c, ok) ==
    IF ok
    THEN [st EXCEPT !.todos = replaceTodo(st.todos, c.input.id, c.result),
                    !.editingTodo = NoTodo,
                    !.editFormData = EmptyEditForm,
                    !.isLoading = FALSE]
    ELSE [st EXCEPT !.isLoading = FALSE]

\* a handleToggleComplete that flips the local record whether or not the
\* remote call succeeded
handleToggleCompleteAlwaysFlips(st, c, ok) ==
    [st EXCEPT !.todos = flipTodo(st.todos, c.input.id)]

\* handleToggleComplete after the await: flip the local record on success,
\* only log on failure
handleToggleCompleteSettled(st, c, ok) ==
    IF ok THEN [st EXCEPT !.todos = flipTodo(st.todos, c.input.id)] ELSE st

\* handleDelete after the await: drop the local record on success, only
\* log on failure
handleDeleteSettled(st, c, ok) ==
    IF ok THEN [st EXCEPT !.todos = filterTodo(st.todos, c.input.id)] ELSE st

Settled(st, c, ok) ==
    CASE c.kind = "getTodos"   -> loadTodosSettled(st, c, ok)
      [] c.kind = "createTodo" -> handleCreateSubmitSettled(st, c, ok)
      [] c.kind = "updateTodo" -> handleEditSubmitSettled(st, c, ok)
      [] c.kind = "toggleTodo" -> handleToggleCompleteSettled(st, c, ok)
      [] c.kind = "deleteTodo" -> handleDeleteSettled(st, c, ok)

SetClientState(st) ==
    /\ todos' = st.todos
    /\ isLoading' = st.isLoading
    /\ editingTodo' = st.editingTodo
    /\ formData' = st.formData
    /\ editFormData' = st.editFormData

(* --------------------------- App: actions ----------------------------- *)
\* onChange of the create form's title input
TypeTitle ==
    /\ \E str \in TypedTitles :
        /\ str # formData.title
        /\ formData' = [formData EXCEPT !.title = str]
        /\ last' = NoCall
    /\ UNCHANGED <<rows, nextId, clock, todos, isLoading, editingTodo,
                   editFormData, calls,
                   sent>>

\* onChange of the create form's description textarea
TypeDescription ==
    /\ \E str \in TypedDescriptions :
        /\ valueOrNull(str) # formData.description
        /\ formData' = [formData EXCEPT !.description = valueOrNull(str)]
        /\ last' = NoCall
    /\ UNCHANGED <<rows, nextId, clock, todos, isLoading, editingTodo,
                   editFormData, calls,
                   sent>>

\* onChange of the edit form's title input
TypeEditTitle ==
    /\ EditFormShown
    /\ \E str \in TypedTitles :
        /\ str # editFormData.title
        /\ editFormData' = [editFormData EXCEPT !.title = str]
        /\ last' = NoCall
    /\ UNCHANGED <<rows, nextId, clock, todos, isLoading, editingTodo,
                   formData, calls,
                   sent>>

\* onChange of the edit form's description textarea
TypeEditDescription ==
    /\ EditFormShown
    /\ \E str \in TypedDescriptions :
        /\ valueOrNull(str) # editFormData.description
        /\ editFormData' =
               [editFormData EXCEPT !.description = valueOrNull(str)]
        /\ last' = NoCall
    /\ UNCHANGED <<rows, nextId, clock, todos, isLoading, editingTodo,
                   formData, calls,
                   sent>>

\* handleCreateSubmit up to the await; the submit button is disabled
\* while isLoading
HandleCreateSubmit ==
    /\ ~isLoading
    /\ IF trim(formData.title) = ""
       THEN /\ last' = Event("handleCreateSubmit", "returned", formData)
            /\ UNCHANGED <<isLoading, calls>>
       ELSE /\ CanIssue
            /\ nextId + PendingCreates <= MaxId
            /\ isLoading' = TRUE
            /\ calls' = Append(calls, NewCall("createTodo", formData))
            /\ last' = Event("handleCreateSubmit", "issued", formData)
    /\ UNCHANGED <<rows, nextId, clock, todos, editingTodo, formData,
                   editFormData,
                   sent>>

\* handleEditSubmit up to the await; the save button is disabled while
\* isLoading and exists only in the card that shows the edit form
HandleEditSubmit ==
    /\ EditFormShown
    /\ ~isLoading
    /\ IF trim(editFormData.title) = "" \/ editingTodo = NoTodo
       THEN /\ last' = Event("handleEditSubmit", "returned", editFormData)
            /\ UNCHANGED <<isLoading, calls>>
       ELSE /\ CanIssue
            /\ isLoading' = TRUE
            /\ calls' = Append(calls, NewCall("updateTodo", editFormData))
            /\ last' = Event("handleEditSubmit", "issued", editFormData)
    /\ UNCHANGED <<rows, nextId, clock, todos, editingTodo, formData,
                   editFormData,
                   sent>>

\* the input handleToggleComplete(todo) sends for the todo of card k
ToggleInput(k) == [id |-> todos[k].id, completed |-> ~todos[k].completed]

\* handleToggleComplete(todo) up to the await, on the todo of card k
IssueToggle(k) ==
    /\ ShowsTodo(k)
    /\ calls' = Append(calls, NewCall("toggleTodo", ToggleInput(k)))
    /\ last' = Event("handleToggleComplete", "issued", ToggleInput(k))

\* handleToggleComplete(todo) up to the await
HandleToggleComplete ==
    /\ CanIssue
    /\ \E k \in DOMAIN todos : IssueToggle(k)
    /\ UNCHANGED <<rows, nextId, clock, todos, isLoading, editingTodo,
                   formData, editFormData, sent>>

\* handleToggleComplete(todo) up to the await, with the input it sends
\* recorded as the one issued last for that todo
HandleToggleCompleteTraced ==
    /\ CanIssue
    /\ \E k \in DOMAIN todos :
        /\ IssueToggle(k)
        /\ sent' = {r \in sent : r.id # todos[k].id} \cup {ToggleInput(k)}
    /\ UNCHANGED <<rows, nextId, clock, todos, isLoading, editingTodo,
                   formData, editFormData>>

\* handleDelete(todo.id) up to the await
HandleDelete ==
    /\ CanIssue
    /\ \E k \in DOMAIN todos :
        /\ ShowsTodo(k)
        /\ LET input == [id |-> todos[k].id]
           IN /\ calls' = Append(calls, NewCall("deleteTodo", input))
              /\ last' = Event("handleDelete", "issued", input)
    /\ UNCHANGED <<rows, nextId, clock, todos, isLoading, editingTodo,
                   formData, editFormData,
                   sent>>

\* startEdit(todo): the edit button exists only on a todo not completed
StartEdit ==
    /\ \E k \in DOMAIN todos :
        /\ ShowsTodo(k)
        /\ ~todos[k].completed
        /\ editingTodo' = todos[k]
        /\ editFormData' = [id |-> todos[k].id, title |-> todos[k].title,
                            description |-> todos[k].description]
        /\ last' = NoCall
    /\ UNCHANGED <<rows, nextId, clock, todos, isLoading, formData, calls,
                   sent>>

\* cancelEdit: the cancel button exists only in the edit form
CancelEdit ==
    /\ EditFormShown
    /\ editingTodo' = NoTodo
    /\ editFormData' = EmptyEditForm
    /\ last' = NoCall
    /\ UNCHANGED <<rows, nextId, clock, todos, isLoading, formData, calls,
                   sent>>

\* a call of the given kind that reached the server and was not run yet
Reached(i, kind) ==
    /\ calls[i].kind = kind
    /\ calls[i].phase = "sent"

\* the server runs getTodos for a call that reached it
ServeGetTodos ==
    /\ \E i \in DOMAIN calls :
        /\ Reached(i, "getTodos")
        /\ \E res \in getTodos(rows) :
            calls' = [calls EXCEPT ![i] = Responded(calls[i], res)]
    /\ UNCHANGED <<rows, nextId, clock>>
    /\ UNCHANGED <<last, todos, isLoading, editingTodo, formData,
                   editFormData, sent>>

\* the server runs createTodo for a call that reached it
ServeCreateTodo ==
    /\ nextId <= MaxId
    /\ \E i \in DOMAIN calls, now \in clock..MaxClock :
        /\ Reached(i, "createTodo")
        /\ rows' = rows \cup {createTodo(nextId, calls[i].input, now)}
        /\ clock' = now
        /\ calls' = [calls EXCEPT ![i] =
               Responded(calls[i], createTodo(nextId, calls[i].input, now))]
    /\ nextId' = nextId + 1
    /\ UNCHANGED <<last, todos, isLoading, editingTodo, formData,
                   editFormData, sent>>

\* the server runs updateTodo for a call that reached it
ServeUpdateTodo ==
    /\ \E i \in DOMAIN calls, t1 \in clock..MaxClock :
        \E t2 \in t1..MaxClock :
            /\ Reached(i, "updateTodo")
            /\ clock' = t2
            /\ calls' = [calls EXCEPT ![i] =
                   Responded(calls[i], updateTodo(calls[i].input, t1, t2))]
    /\ UNCHANGED <<rows, nextId>>
    /\ UNCHANGED <<last, todos, isLoading, editingTodo, formData,
                   editFormData, sent>>

\* the server runs toggleTodo for a call that reached it
ServeToggleTodo ==
    /\ \E i \in DOMAIN calls, t1 \in clock..MaxClock :
        \E t2 \in t1..MaxClock :
            /\ Reached(i, "toggleTodo")
            /\ clock' = t2
            /\ calls' = [calls EXCEPT ![i] =
                   Responded(calls[i], toggleTodo(calls[i].input, t1, t2))]
    /\ UNCHANGED <<rows, nextId>>
    /\ UNCHANGED <<last, todos, isLoading, editingTodo, formData,
                   editFormData, sent>>

\* the server runs deleteTodo for a call that reached it
ServeDeleteTodo ==
    /\ \E i \in DOMAIN calls :
        /\ Reached(i, "deleteTodo")
        /\ rows' = deleteTodo(rows, calls[i].input).rows
        /\ calls' = [calls EXCEPT ![i] =
               Responded(calls[i], deleteTodo(rows, calls[i].input).result)]
    /\ UNCHANGED <<nextId, clock>>
    /\ UNCHANGED <<last, todos, isLoading, editingTodo, formData,
                   editFormData, sent>>

\* the response of a call arrives: the awaiting handler runs to its end
Resolve ==
    \E i \in DOMAIN calls :
        /\ calls[i].phase = "responded"
        /\ SetClientState(Settled(ClientState, calls[i], TRUE))
        /\ calls' = RemoveAt(calls, i)
        /\ last' = [op |-> calls[i].kind, step |-> "resolved",
                    input |-> calls[i].input, before |-> ClientState,
                    outstanding |-> Len(calls), result |-> calls[i].result]
        /\ UNCHANGED <<rows, nextId, clock, sent>>

\* a call fails, its request or its response lost: the awaiting handler
\* runs its catch and finally blocks
Reject ==
    \E i \in DOMAIN calls :
        /\ SetClientState(Settled(ClientState, calls[i], FALSE))
        /\ calls' = RemoveAt(calls, i)
        /\ last' = [op |-> calls[i].kind, step |-> "rejected",
                    input |-> calls[i].input, before |-> ClientState,
                    outstanding |-> Len(calls)]
        /\ UNCHANGED <<rows, nextId, clock, sent>>

\* the App is mounted: the effect has called loadTodos
Mounted ==
    /\ todos = <<>>
    /\ isLoading = FALSE
    /\ editingTodo = NoTodo
    /\ formData = EmptyForm
    /\ editFormData = EmptyEditForm
    /\ calls = <<NewCall("getTodos", <<>>)>>
    /\ sent = {}
    /\ last = NoCall

\* the App is mounted against an empty Store
InitClient ==
    /\ rows = {}
    /\ nextId = 1
    /\ clock = 0
    /\ Mounted

NextClient ==
    \/ TypeTitle
    \/ TypeDescription
    \/ TypeEditTitle
    \/ TypeEditDescription
    \/ HandleCreateSubmit
    \/ HandleEditSubmit
    \/ HandleToggleComplete
    \/ HandleDelete
    \/ StartEdit
    \/ CancelEdit
    \/ ServeGetTodos
    \/ ServeCreateTodo
    \/ ServeUpdateTodo
    \/ ServeToggleTodo
    \/ ServeDeleteTodo
    \/ Resolve
    \/ Reject

SpecClient == InitClient /\ [][NextClient]_vars

(* ------------------ the App used only to toggle todos ------------------ *)
\* the rows earlier sessions left in the Store, inserted at time 0
FilledStores ==
    {{InsertRow(i, v[i], 0) : i \in 1..n} :
        n \in 0..MaxTodos,
        v \in [1..MaxTodos ->
                  [title : FixtureTitles, description : NullableDescriptions]]}

\* the App is mounted against a filled Store; every later reading of the
\* clock is MaxClock, the end of the modelled window
InitToggle ==
    /\ rows \in FilledStores
    /\ nextId = Cardinality(rows) + 1
    /\ clock = MaxClock
    /\ Mounted

NextToggle ==
    \/ HandleToggleComplete
    \/ ServeGetTodos
    \/ ServeToggleTodo
    \/ Resolve
    \/ Reject

SpecToggle == InitToggle /\ [][NextToggle]_vars

(* ---------------- the App used for one kind of operation --------------- *)
\* the App used only to create todos
NextCreate ==
    \/ TypeTitle
    \/ TypeDescription
    \/ HandleCreateSubmit
    \/ ServeGetTodos
    \/ ServeCreateTodo
    \/ Resolve
    \/ Reject

SpecCreate == InitToggle /\ [][NextCreate]_vars

\* the App used only to edit todos
NextEdit ==
    \/ StartEdit
    \/ TypeEditTitle
    \/ TypeEditDescription
    \/ HandleEditSubmit
    \/ CancelEdit
    \/ ServeGetTodos
    \/ ServeUpdateTodo
    \/ Resolve
    \/ Reject

SpecEdit == InitToggle /\ [][NextEdit]_vars

\* the App used only to delete todos
NextDelete ==
    \/ HandleDelete
    \/ ServeGetTodos
    \/ ServeDeleteTodo
    \/ Resolve
    \/ Reject

SpecDelete == InitToggle /\ [][NextDelete]_vars

\* the App used to toggle todos, every remote call succeeding
NextRace ==
    \/ HandleToggleCompleteTraced
    \/ ServeGetTodos
    \/ ServeToggleTodo
    \/ Resolve

SpecRace == InitToggle /\ [][NextRace]_vars

\* the App used to create, edit and delete todos, the forms submitted as
\* filled by one title typed or by startEdit
NextSubmit ==
    \/ TypeTitle
    \/ HandleCreateSubmit
    \/ StartEdit
    \/ HandleEditSubmit
    \/ HandleDelete
    \/ ServeGetTodos
    \/ ServeCreateTodo
    \/ ServeUpdateTodo
    \/ ServeDeleteTodo
    \/ Resolve
    \/ Reject

SpecSubmit == InitToggle /\ [][NextSubmit]_vars

\* the App used to create and edit todos while toggles go on
NextOverlap ==
    \/ TypeTitle
    \/ HandleCreateSubmit
    \/ StartEdit
    \/ HandleEditSubmit
    \/ HandleToggleComplete
    \/ ServeGetTodos
    \/ ServeCreateTodo
    \/ ServeUpdateTodo
    \/ ServeToggleTodo
    \/ Resolve
    \/ Reject

SpecOverlap == InitToggle /\ [][NextOverlap]_vars

(* ------------------------ the handler contract ------------------------ *)
\* the last call was an update or a toggle
LastMutation == last.op \in {"update", "toggle"}

\* the last call named an id that had a row when it was made
LastHadRow == HasRow(last.before, last.input.id)

\* the row the last call named, as it was before the call
OldRow == RowOf(last.before, last.input.id)

\* the Todo the last call resolved with
Returned == last.result.todo

\* C1: an update or toggle whose id references no row fails with NotFound
\* (it is rejected, it returns no Todo) and leaves the Store's rows as
\* they were.
C1_NotFoundLeavesStore ==
    (LastMutation /\ ~LastHadRow) =>
        /\ ~last.result.ok
        /\ last.result.error = "NotFound"
        /\ rows = last.before

\* C2: an update of an existing row returns, for every field the patch
\* supplies, the patch's value, and for every field it omits, and for id
\* and created_at, the value the row held before the call.
C2_PartialMerge ==
    (last.op = "update" /\ LastHadRow) =>
        /\ last.result.ok
        /\ Returned.id = OldRow.id
        /\ Returned.created_at = OldRow.created_at
        /\ \A f \in {"title", "description", "completed"} :
            Returned[f] = IF f \in DOMAIN last.input THEN last.input[f]
                          ELSE OldRow[f]

\* C3: the description of a patch has three states: omitted leaves the
\* row's description, null makes it null, a text makes it that text.
C3_DescriptionThreeState ==
    (last.op = "update" /\ LastHadRow) =>
        /\ last.result.ok
        /\ "description" \notin DOMAIN last.input =>
               Returned.description = OldRow.description
        /\ ("description" \in DOMAIN last.input
              /\ last.input.description = NULL) =>
               Returned.description = NULL
        /\ ("description" \in DOMAIN last.input
              /\ last.input.description # NULL) =>
               Returned.description = last.input.description

\* C4: an update of an existing row that supplies only the id leaves the
\* row's updated_at strictly greater than before and id, title,
\* description, completed and created_at unchanged.
C4_IdOnlyUpdate ==
    (last.op = "update" /\ DOMAIN last.input = {"id"} /\ LastHadRow) =>
        /\ last.result.ok
        /\ Returned.updated_at > OldRow.updated_at
        /\ HasRow(rows, last.input.id)
        /\ RowOf(rows, last.input.id).updated_at > OldRow.updated_at
        /\ \A f \in {"id", "title", "description", "completed",
                     "created_at"} :
            /\ Returned[f] = OldRow[f]
            /\ RowOf(rows, last.input.id)[f] = OldRow[f]

\* C5: every Todo has updated_at >= created_at, and every successful
\* update or toggle leaves the mutated Todo's updated_at strictly greater
\* than it was before that mutation.
C5_TimestampOrder ==
    /\ \A r \in rows : r.updated_at >= r.created_at
    /\ (last.op \in {"insert", "update", "toggle"} /\ last.result.ok) =>
           Returned.updated_at >= Returned.created_at
    /\ (LastMutation /\ LastHadRow /\ last.result.ok) =>
        /\ Returned.updated_at > OldRow.updated_at
        /\ HasRow(rows, last.input.id)
        /\ RowOf(rows, last.input.id).updated_at > OldRow.updated_at

\* C6: a toggle of an existing row returns completed equal to the supplied
\* value and id, title, description (null included) and created_at equal
\* to the row's values before the call.
C6_ToggleFrame ==
    (last.op = "toggle" /\ LastHadRow) =>
        /\ last.result.ok
        /\ Returned.completed = last.input.completed
        /\ \A f \in {"id", "title", "description", "created_at"} :
            Returned[f] = OldRow[f]

\* C7: after every successful update or toggle the Store holds exactly one
\* row with that id, and its title, description, completed and updated_at
\* are those of the Todo the operation returned.
C7_StoredEqualsReturned ==
    (LastMutation /\ LastHadRow /\ last.result.ok) =>
        /\ Cardinality(RowsById(rows, last.input.id)) = 1
        /\ \A f \in {"title", "description", "completed", "updated_at"} :
            RowOf(rows, last.input.id)[f] = Returned[f]

C9_DeleteFrame ==
    last.op = "delete" =>
        /\ \A r \in last.before : r.id # last.input.id => r \in rows
        /\ \A r \in rows : r \in last.before

\* one of two rows was deleted and the other one is still there
C9_Witness ==
    /\ last.op = "delete"
    /\ LastHadRow
    /\ \E r \in last.before : r.id # last.input.id /\ r \in rows

(* ----------------------- the controller's toggle ---------------------- *)
\* the local list as it was when the last controller step began
TodosBefore == last.before.todos

\* the last controller step was a toggle call settling with the outcome
ToggleSettled(outcome) == last.op = "toggleTodo" /\ last.step = outcome

\* the last controller step was handleToggleComplete issuing its call
ToggleIssued == last.op = "handleToggleComplete" /\ last.step = "issued"

\* the list is ts with the completed value of every record with the id
\* negated, and nothing else changed
FlippedFrom(ts, id) ==
    /\ Len(todos) = Len(ts)
    /\ \A k \in DOMAIN ts :
        /\ todos[k].completed = (IF ts[k].id = id THEN ~ts[k].completed
                                 ELSE ts[k].completed)
        /\ \A f \in {"id", "title", "description", "created_at",
                     "updated_at"} : todos[k][f] = ts[k][f]

CallSettled(kind, outcome) == last.op = kind /\ last.step = outcome

\* C11: a rejected refresh, submit-create, submit-update or delete call is
\* caught and leaves the local list unchanged and the UI where it was: the
\* create form keeps its fields, edit mode stays on the same todo, the row
\* targeted for deletion stays in the list; no call is issued in its place.
C11_RejectedLeavesState ==
    (\E kind \in {"getTodos", "createTodo", "updateTodo", "deleteTodo"} :
        CallSettled(kind, "rejected")) =>
        /\ todos = last.before.todos
        /\ formData = last.before.formData
        /\ editingTodo = last.before.editingTodo
        /\ editFormData = last.before.editFormData
        /\ Len(calls) = last.outstanding - 1

\* an update call was rejected while the edit form of the todo it was
\* submitted for is shown: the form is still shown, with its fields
C11_Witness ==
    /\ CallSettled("updateTodo", "rejected")
    /\ editingTodo # NoTodo
    /\ editingTodo.id = last.input.id
    /\ editFormData = last.input
    /\ EditFormShown

(* ------------------------- submit-create ------------------------- *)
\* C12: submit-create with an empty or whitespace-only title issues no remote
\* call and changes no state; with a non-blank title it calls create exactly
\* once, and when the call succeeds the list is the previous list with the
\* returned todo appended last and the create form is reset to title '' and
\* description null.
C12_CreateSubmit ==
    /\ (last.op = "handleCreateSubmit" /\ last.input.title \in {"", " "}) =>
        /\ last.step = "returned"
        /\ Len(calls) = last.outstanding
        /\ ClientState = last.before
    /\ (last.op = "handleCreateSubmit" /\ last.input.title \notin {"", " "}) =>
        /\ last.step = "issued"
        /\ Len(calls) = last.outstanding + 1
        /\ calls[Len(calls)].kind = "createTodo"
        /\ calls[Len(calls)].input = last.input
        /\ Cardinality({k \in DOMAIN calls : calls[k].kind = "createTodo"}) = 1
        /\ todos = last.before.todos
    /\ CallSettled("createTodo", "resolved") =>
        /\ todos = last.before.todos \o <<last.result>>
        /\ formData = EmptyForm

\* a create call resolved with todos already listed and the form filled in
C12_Witness ==
    /\ CallSettled("createTodo", "resolved")
    /\ Len(last.before.todos) > 0
    /\ last.before.formData.title = "a"
    /\ todos[Len(todos)] = last.result

(* ------------------------- submit-update ------------------------- *)
\* C13: when submit-update succeeds, the list is the previous list with
\* exactly the record whose id is the edited todo's id replaced by the
\* server's response, every other record unchanged, order and length
\* preserved; editingTodo is null and the edit form is reset.
C13_EditSubmit ==
    CallSettled("updateTodo", "resolved") =>
        /\ Len(todos) = Len(last.before.todos)
        /\ \A k \in DOMAIN todos :
            todos[k] = IF last.before.todos[k].id = last.input.id
                       THEN last.result
                       ELSE last.before.todos[k]
        /\ editingTodo = NoTodo
        /\ editFormData = EmptyEditForm

\* an update call resolved while two todos were listed: the edited one is now
\* the response, which differs from what was listed, and the other one stays
C13_Witness ==
    /\ CallSettled("updateTodo", "resolved")
    /\ last.before.editingTodo # NoTodo
    /\ \E k, j \in DOMAIN todos :
        /\ last.before.todos[k].id = last.input.id
        /\ todos[k] = last.result
        /\ todos[k] # last.before.todos[k]
        /\ last.before.todos[j].id # last.input.id
        /\ todos[j] = last.before.todos[j]

(* ----------------------------- delete ----------------------------- *)
\* C14: when the controller's delete succeeds, the list holds no record with
\* the deleted id and every other record is unchanged, in the same order; the
\* removal happens only after the remote call completed: issuing the call
\* leaves the list as it was.
C14_Delete ==
    /\ last.op = "handleDelete" => todos = last.before.todos
    /\ CallSettled("deleteTodo", "resolved") =>
        /\ \A k \in DOMAIN todos : todos[k].id # last.input.id
        /\ todos = SelectSeq(last.before.todos,
                             LAMBDA t : t.id # last.input.id)

\* a delete call resolved while two todos were listed, the deleted one last:
\* only the other one is left
C14_Witness ==
    /\ CallSettled("deleteTodo", "resolved")
    /\ Len(last.before.todos) = 2
    /\ last.before.todos[2].id = last.input.id
    /\ todos = <<last.before.todos[1]>>

(* ------------------- the shared in-flight flag ------------------- *)
\* the create and update calls that have not settled
SubmitCalls ==
    {k \in DOMAIN calls : calls[k].kind \in {"createTodo", "updateTodo"}}

\* C15: at most one create or update call is outstanding at a time; while it
\* is in flight isLoading is true and both submit controls are disabled, and
\* the flag is false again once the call completed, by success or by
\* rejection; toggle and delete are not held back by the flag: a todo shown
\* can be toggled or deleted whatever isLoading is.
C15_OneSubmitInFlight ==
    /\ Cardinality(SubmitCalls) <= 1
    /\ isLoading <=> SubmitCalls # {}
    /\ isLoading => ~ENABLED HandleCreateSubmit /\ ~ENABLED HandleEditSubmit
    /\ (\E kind \in {"createTodo", "updateTodo"} :
            CallSettled(kind, "resolved") \/ CallSettled(kind, "rejected")) =>
        ~isLoading
    /\ (CanIssue /\ \E k \in DOMAIN todos : ShowsTodo(k)) =>
        ENABLED HandleToggleComplete /\ ENABLED HandleDelete

\* an update call in flight with the create form filled in, and a toggle
\* issued after it
C15_Witness ==
    /\ isLoading
    /\ formData.title = "a"
    /\ Len(calls) = 2
    /\ calls[1].kind = "updateTodo"
    /\ calls[2].kind = "toggleTodo"

(* ------------------------ toggles that overlap ------------------------ *)
\* the toggle calls for the todo that have not settled
TogglesOutstanding(id) ==
    {i \in DOMAIN calls : calls[i].kind = "toggleTodo" /\ calls[i].input.id = id}

\* C16: whatever the interleaving of toggles on one todo, when every remote
\* toggle succeeded and none is outstanding, the completed value the local
\* list holds for the todo is the one sent in the toggle request issued last.
C16_LastToggleWins ==
    \A r \in sent :
        TogglesOutstanding(r.id) = {} =>
            \A k \in DOMAIN todos :
                todos[k].id = r.id => todos[k].completed = r.completed

====
